---- MODULE Spec2Model ----
(***************************************************************************)
(* Model of homework.py: the polling loop of main() together with          *)
(* check_tokens, get_api_answer, check_response, parse_status and          *)
(* send_message.                                                           *)
(*                                                                         *)
(* Conventions.                                                            *)
(*  - The Cyrillic string literals of the source are written here in an    *)
(*    ASCII transliteration; every literal keeps its own distinct text.    *)
(*  - Python None is the string None where strings are expected and the    *)
(*    integer NoDate where an integer is expected (current_date, cursor).  *)
(*  - A dictionary key that is missing is the string Absent.               *)
(*  - A call that may raise returns [raised, error, value]; an exception   *)
(*    is [type, str], str being what str(error) / f'{error}' gives.        *)
(***************************************************************************)
EXTENDS Integers, Sequences, FiniteSets, TLC

VARIABLES
    tokens,      \* PRACTICUM_TOKEN, TELEGRAM_TOKEN, TELEGRAM_CHAT_ID
    pc,          \* position of main(): start, poll, items, except, sleep, done, exited, crashed
    timestamp,   \* main's cursor
    last_send,   \* main's dictionary of last messages, key -> message
    response,    \* main's response of this iteration
    homeworks,   \* main's homeworks of this iteration
    idx,         \* position of "for homework in homeworks", 1-based
    error,       \* the exception bound by "except Exception as error"
    outcome,     \* how this iteration left the try statement
    delivered,   \* the calls bot.send_message(chat_id, text) made so far
    from_date,   \* params['from_date'] of the last request
    http,        \* what the endpoint did with the request of this iteration
    sentNow,     \* history: the send_message calls of this iteration
    slept,       \* history: the time.sleep calls since the last request
    timestamp0,  \* history: the cursor when this iteration began
    validated,   \* history: check_response returned in this iteration
    prev         \* history: summary of the previous iteration

vars == <<tokens, pc, timestamp, last_send, response, homeworks, idx, error,
          outcome, delivered, from_date, http, sentNow, slept, timestamp0,
          validated, prev>>

(***************************************************************************)
(* Bounds and input sets                                                   *)
(***************************************************************************)
MaxItems == 2

None == "<None>"
Absent == "<absent>"
NoDate == -1
Now == 1

TokenValues == {"", "set"}
Names == {Absent, "hw1", "error"}
Statuses == {Absent, "approved", "reviewing", "rejected", "unknown"}
CurrentDates == {NoDate, 0, 2}
StatusCodes == {200, 404}

RETRY_PERIOD == 600
HTTP_OK == 200

HOMEWORK_VERDICTS ==
    [s \in {"approved", "reviewing", "rejected"} |->
        CASE s = "approved" -> "Rabota proverena: revyueru vsyo ponravilos. Ura!"
          [] s = "reviewing" -> "Rabota vzyata na proverku revyuerom."
          [] s = "rejected" -> "Rabota proverena: u revyuera est zamechaniya."]

(***************************************************************************)
(* Python helpers                                                          *)
(***************************************************************************)
Raise(type, text) ==
    [raised |-> TRUE, error |-> [type |-> type, str |-> text], value |-> None]

NoError == [type |-> None, str |-> None]

\* str(KeyError(text)) is repr(text)
KeyErrorStr(text) == "'" \o text \o "'"

\* exceptions.ParseStatusError.__init__
ParseStatusError(text) == "Parsing otveta API: " \o text

\* dict.get(key): None when the key is missing
Get(d, k) == IF k \in DOMAIN d THEN d[k] ELSE None

\* d[key] = value
Put(d, k, v) == [x \in (DOMAIN d) \cup {k} |-> IF x = k THEN v ELSE d[x]]

\* "timestamp or ..." : None and 0 are falsy
Falsy(n) == n = NoDate \/ n = 0

(***************************************************************************)
(* Inputs: what the endpoint may answer                                    *)
(***************************************************************************)
\* the work items polled: the item named hw1 in every status, the other
\* names with one recognized status, and the item with neither key
Homework ==
    {h \in [homework_name : Names, status : Statuses] :
        \/ h.homework_name = "hw1"
        \/ h.status = "approved"
        \/ (h.homework_name = Absent /\ h.status = Absent)}

HomeworkLists == UNION {[1..n -> Homework] : n \in 0..MaxItems}

NullPayload ==
    [truthy |-> FALSE, is_dict |-> FALSE, has_homeworks |-> FALSE,
     homeworks_is_list |-> FALSE, homeworks |-> <<>>, current_date |-> NoDate]

Payloads ==
    {NullPayload,
     [NullPayload EXCEPT !.is_dict = TRUE],
     [NullPayload EXCEPT !.truthy = TRUE],
     [NullPayload EXCEPT !.truthy = TRUE, !.is_dict = TRUE],
     [NullPayload EXCEPT !.truthy = TRUE, !.is_dict = TRUE, !.has_homeworks = TRUE]}
    \cup
    {[truthy |-> TRUE, is_dict |-> TRUE, has_homeworks |-> TRUE,
      homeworks_is_list |-> TRUE, homeworks |-> l, current_date |-> d] :
        l \in HomeworkLists, d \in CurrentDates}

HttpAnswers ==
    {[transport_ok |-> FALSE, status_code |-> HTTP_OK, decodable |-> FALSE,
      decode_error_caught |-> TRUE, body |-> NullPayload]}
    \cup
    {[transport_ok |-> TRUE, status_code |-> c, decodable |-> FALSE,
      decode_error_caught |-> TRUE, body |-> NullPayload] :
        c \in StatusCodes \ {HTTP_OK}}
    \cup
    {[transport_ok |-> TRUE, status_code |-> HTTP_OK, decodable |-> FALSE,
      decode_error_caught |-> b, body |-> NullPayload] : b \in BOOLEAN}
    \cup
    {[transport_ok |-> TRUE, status_code |-> HTTP_OK, decodable |-> TRUE,
      decode_error_caught |-> TRUE, body |-> p] : p \in Payloads}

(***************************************************************************)
(* The functions of homework.py                                            *)
(***************************************************************************)
Return(v) == [raised |-> FALSE, error |-> NoError, value |-> v]

\* a check_tokens that leaves TELEGRAM_CHAT_ID out of its list
check_tokens_two(t) ==
    /\ t.PRACTICUM_TOKEN # ""
    /\ t.TELEGRAM_TOKEN # ""

\* check_tokens: all([PRACTICUM_TOKEN, TELEGRAM_TOKEN, TELEGRAM_CHAT_ID])
check_tokens(t) ==
    /\ t.PRACTICUM_TOKEN # ""
    /\ t.TELEGRAM_TOKEN # ""
    /\ t.TELEGRAM_CHAT_ID # ""

\* get_api_answer, lines 76-77: params = {'from_date': timestamp or int(time.time())}
RequestFromDate(ts) == IF Falsy(ts) THEN Now ELSE ts

\* get_api_answer, lines 78-98.  A failed requests.get is only logged, and
\* line 85 then reads the unassigned response_from_api.  A body that does
\* not decode is caught when the error requests raises is a
\* json.JSONDecodeError (line 98 then reads the unassigned response) and
\* propagates when it is not (requests built on simplejson).  The text of
\* UnboundLocalError is that of Python up to 3.10; later versions word it
\* differently, one fixed text per variable all the same.
get_api_answer(ts, h) ==
    IF ~h.transport_ok
    THEN Raise("UnboundLocalError",
               "local variable 'response_from_api' referenced before assignment")
    ELSE IF h.status_code # HTTP_OK
    THEN Raise("Exception",
               "Oshibka otveta ot API adresa: " \o ToString(h.status_code))
    ELSE IF ~h.decodable
    THEN IF h.decode_error_caught
         THEN Raise("UnboundLocalError",
                    "local variable 'response' referenced before assignment")
         ELSE Raise("JSONDecodeError",
                    "Expecting value: line 1 column 1 (char 0)")
    ELSE Return(h.body)

\* check_response, lines 103-123
check_response(r) ==
    IF ~r.truthy
    THEN Raise("KeyError", KeyErrorStr("V slovare net dannykh."))
    ELSE IF ~r.is_dict
    THEN Raise("TypeError", "V slovare nekorrektnyy tip dannykh.")
    ELSE IF ~r.has_homeworks
    THEN Raise("KeyError", KeyErrorStr("V slovare otsutstvuyut ozhidaemye klyuchi."))
    ELSE IF ~r.homeworks_is_list
    THEN Raise("TypeError", "Format otveta ne sootvetstvuet iskomomu.")
    ELSE Return(r.homeworks)

\* parse_status, line 148
StatusMessage(homework_name, verdict) ==
    "Izmenilsya status proverki raboty \"" \o homework_name \o "\". " \o verdict

\* a parse_status without the check of lines 138-141: a missing status is
\* looked up like any other
parse_status_unchecked(homework) ==
    IF homework.homework_name = Absent
    THEN Raise("KeyError", KeyErrorStr(
            "V otvete API otsutstvuet ozhidaemyy klyuch \"homework_name\"."))
    ELSE IF homework.status \notin DOMAIN HOMEWORK_VERDICTS
    THEN Raise("KeyError", KeyErrorStr("Neizvestnyy status domashney raboty"))
    ELSE Return(StatusMessage(homework.homework_name,
                              HOMEWORK_VERDICTS[homework.status]))

\* a parse_status without the check of lines 144-147: the verdict is what
\* HOMEWORK_VERDICTS.get returned, None for a status it does not know
parse_status_default(homework) ==
    IF homework.homework_name = Absent
    THEN Raise("KeyError", KeyErrorStr(
            "V otvete API otsutstvuet ozhidaemyy klyuch \"homework_name\"."))
    ELSE IF homework.status = Absent
    THEN Raise("ParseStatusError",
               ParseStatusError("Otsutstuet klyuch homework_status."))
    ELSE Return(StatusMessage(homework.homework_name,
                IF homework.status \in DOMAIN HOMEWORK_VERDICTS
                THEN HOMEWORK_VERDICTS[homework.status] ELSE "None"))

\* parse_status, lines 129-148
parse_status(homework) ==
    IF homework.homework_name = Absent
    THEN Raise("KeyError", KeyErrorStr(
            "V otvete API otsutstvuet ozhidaemyy klyuch \"homework_name\"."))
    ELSE IF homework.status = Absent
    THEN Raise("ParseStatusError",
               ParseStatusError("Otsutstuet klyuch homework_status."))
    ELSE IF homework.status \notin DOMAIN HOMEWORK_VERDICTS
    THEN Raise("KeyError", KeyErrorStr("Neizvestnyy status domashney raboty"))
    ELSE Return(StatusMessage(homework.homework_name,
                              HOMEWORK_VERDICTS[homework.status]))

\* send_message, line 65: logging.DEBUG is the integer level 10, so
\* logging.DEBUG(...) raises TypeError before line 66 is reached.
LoggingDEBUGRaises == TRUE

\* a send_message without its try/except: the TypeError of line 65 leaves it
send_message_unguarded(chat_id, message, notifier_ok) ==
    [raised |-> TRUE,
     error |-> [type |-> "TypeError", str |-> "'int' object is not callable"],
     delivered |-> <<>>, logged |-> <<>>]

\* send_message, lines 63-68.  notifier_ok is whether bot.send_message
\* would succeed.  The result tells what the call did: the calls made to
\* bot.send_message, what logging.error recorded, and whether an exception
\* left the function.
send_message(chat_id, message, notifier_ok) ==
    IF LoggingDEBUGRaises
    THEN [raised |-> FALSE, error |-> NoError, delivered |-> <<>>,
          logged |-> <<"'int' object is not callable">>]
    ELSE IF notifier_ok
    THEN [raised |-> FALSE, error |-> NoError,
          delivered |-> <<[chat_id |-> chat_id, text |-> message]>>,
          logged |-> <<>>]
    ELSE [raised |-> FALSE, error |-> NoError, delivered |-> <<>>,
          logged |-> <<"notifier failure">>]

\* a main that sends without comparing
AlwaysSend(stored, message) == TRUE

\* main, lines 184 and 190: the message differs from the one remembered
ShouldSend(stored, message) == stored # message

\* a main without the empty-batch break
NeverEmptyBatch(hws) == FALSE

\* main, line 179
IsEmptyBatch(hws) == Len(hws) = 0

\* a main that never advances the cursor
KeepCursor(ts, resp) == ts

\* main, line 187: timestamp = response.get('current_date')
NextCursor(ts, resp) == resp.current_date

\* main, line 189
ErrorMessage(err) == "Sboy v rabote programmy: " \o err.str

\* a main without the else clause
KeepError(ls) == ls

\* main, lines 193-194: else: last_send['error'] = None
ClearError(ls) == Put(ls, "error", None)

\* a main that sleeps in the else clause instead of the finally clause
SleepsOnSuccessOnly(how) == IF how = "else" THEN <<RETRY_PERIOD>> ELSE <<>>

\* main, lines 195-196: finally: time.sleep(RETRY_PERIOD)
SleepsAfter(how) == <<RETRY_PERIOD>>

(***************************************************************************)
(* main()                                                                  *)
(***************************************************************************)
\* what one call send_message(bot, message) at line 185 or 191 did
Call(key, message, stored, res) ==
    [key |-> key, message |-> message, stored |-> stored,
     raised |-> res.raised, delivered |-> res.delivered, logged |-> res.logged]

\* no request has been made in this iteration
NoHttp ==
    [requested |-> FALSE, transport_ok |-> FALSE, status_code |-> 0,
     decodable |-> FALSE, decode_error_caught |-> FALSE]

\* the request of this iteration was answered by h
Answered(h) ==
    [requested |-> TRUE, transport_ok |-> h.transport_ok,
     status_code |-> h.status_code, decodable |-> h.decodable,
     decode_error_caught |-> h.decode_error_caught]

NoPrev ==
    [outcome |-> "none", error |-> None, last_error |-> None, items |-> {},
     empty_batch |-> FALSE, sent |-> 0]

\* the state after line 164
Init ==
    /\ tokens \in [PRACTICUM_TOKEN : TokenValues, TELEGRAM_TOKEN : TokenValues,
                   TELEGRAM_CHAT_ID : TokenValues]
    /\ pc = "start"
    /\ timestamp = NoDate
    /\ last_send = [k \in {"error"} |-> None]
    /\ response = NullPayload
    /\ homeworks = <<>>
    /\ idx = 0
    /\ error = NoError
    /\ outcome = "none"
    /\ delivered = <<>>
    /\ from_date = NoDate
    /\ http = NoHttp
    /\ sentNow = <<>>
    /\ slept = <<>>
    /\ timestamp0 = NoDate
    /\ validated = FALSE
    /\ prev = NoPrev

\* lines 165-173: exit() when a token is missing, else start the cursor
CheckTokens ==
    /\ pc = "start"
    /\ IF check_tokens(tokens)
       THEN pc' = "poll" /\ timestamp' = Now
       ELSE pc' = "exited" /\ UNCHANGED timestamp
    /\ UNCHANGED <<tokens, last_send, response, homeworks, idx, error, outcome,
                   delivered, from_date, http, sentNow, slept, timestamp0,
                   validated, prev>>

\* lines 177-181: the request, the validation and the empty-batch break
Poll ==
    /\ pc = "poll"
    /\ \E h \in HttpAnswers :
        LET ans == get_api_answer(timestamp, h)
            chk == check_response(ans.value)
        IN  /\ http' = Answered(h)
            /\ IF ans.raised
               THEN /\ response' = NullPayload
                    /\ homeworks' = <<>>
                    /\ validated' = FALSE
                    /\ error' = ans.error
                    /\ pc' = "except"
                    /\ outcome' = "running"
               ELSE IF chk.raised
               THEN /\ response' = ans.value
                    /\ homeworks' = <<>>
                    /\ validated' = FALSE
                    /\ error' = chk.error
                    /\ pc' = "except"
                    /\ outcome' = "running"
               ELSE /\ response' = ans.value
                    /\ homeworks' = chk.value
                    /\ validated' = TRUE
                    /\ error' = NoError
                    /\ IF IsEmptyBatch(chk.value)
                       THEN pc' = "sleep" /\ outcome' = "break"
                       ELSE pc' = "items" /\ outcome' = "running"
    /\ from_date' = RequestFromDate(timestamp)
    /\ idx' = 1
    /\ sentNow' = <<>>
    /\ slept' = <<>>
    /\ timestamp0' = timestamp
    /\ UNCHANGED <<tokens, timestamp, last_send, delivered, prev>>

\* lines 182-186: one pass of the for loop
ProcessItem ==
    /\ pc = "items"
    /\ idx <= Len(homeworks)
    /\ \E notifier_ok \in BOOLEAN :
        LET homework == homeworks[idx]
            parsed == parse_status(homework)
            key == homework.homework_name
            message == parsed.value
            stored == Get(last_send, key)
            res == send_message(tokens.TELEGRAM_CHAT_ID, message, notifier_ok)
        IN  IF parsed.raised
            THEN /\ pc' = "except"
                 /\ error' = parsed.error
                 /\ UNCHANGED <<last_send, delivered, sentNow, idx>>
            ELSE IF ~ShouldSend(stored, message)
            THEN /\ idx' = idx + 1
                 /\ UNCHANGED <<pc, error, last_send, delivered, sentNow>>
            ELSE /\ sentNow' = Append(sentNow, Call(key, message, stored, res))
                 /\ delivered' = delivered \o res.delivered
                 /\ IF res.raised
                    THEN /\ pc' = "except"
                         /\ error' = res.error
                         /\ UNCHANGED <<last_send, idx>>
                    ELSE /\ last_send' = Put(last_send, key, message)
                         /\ idx' = idx + 1
                         /\ UNCHANGED <<pc, error>>
    /\ UNCHANGED <<tokens, timestamp, response, homeworks, outcome, from_date,
                   http, slept, timestamp0, validated, prev>>

\* lines 187 and 193-194: the for loop is over, the cursor advances and the
\* else clause runs
FinishIteration ==
    /\ pc = "items"
    /\ idx > Len(homeworks)
    /\ timestamp' = NextCursor(timestamp, response)
    /\ last_send' = ClearError(last_send)
    /\ outcome' = "else"
    /\ pc' = "sleep"
    /\ UNCHANGED <<tokens, response, homeworks, idx, error, delivered,
                   from_date, http, sentNow, slept, timestamp0, validated,
                   prev>>

\* lines 188-192: the except clause.  An exception leaving it would leave
\* main after the finally clause.
HandleError ==
    /\ pc = "except"
    /\ \E notifier_ok \in BOOLEAN :
        LET message == ErrorMessage(error)
            stored == last_send["error"]
            res == send_message(tokens.TELEGRAM_CHAT_ID, message, notifier_ok)
        IN  IF ~ShouldSend(stored, message)
            THEN /\ outcome' = "except"
                 /\ UNCHANGED <<last_send, delivered, sentNow>>
            ELSE /\ sentNow' = Append(sentNow, Call("error", message, stored, res))
                 /\ delivered' = delivered \o res.delivered
                 /\ IF res.raised
                    THEN outcome' = "crash" /\ UNCHANGED last_send
                    ELSE /\ outcome' = "except"
                         /\ last_send' = Put(last_send, "error", message)
    /\ pc' = "sleep"
    /\ UNCHANGED <<tokens, timestamp, response, homeworks, idx, error,
                   from_date, http, slept, timestamp0, validated, prev>>

\* lines 195-196 and the loop edge: the finally clause sleeps, then the
\* break, the escaping exception or the next iteration takes place.  The
\* locals of the iteration and the parameters of its request are dead from
\* here on and are cleared; prev keeps what the next iteration is compared
\* with (prev.sent: the send_message calls of the iteration that left the
\* loop).
Sleep ==
    /\ pc = "sleep"
    /\ slept' = slept \o SleepsAfter(outcome)
    /\ pc' = CASE outcome = "break" -> "done"
               [] outcome = "crash" -> "crashed"
               [] OTHER -> "poll"
    /\ prev' = [outcome |-> outcome,
                error |-> IF outcome \in {"except", "crash"}
                          THEN ErrorMessage(error) ELSE None,
                last_error |-> IF outcome \in {"except", "crash"}
                               THEN ErrorMessage(error) ELSE prev.last_error,
                items |-> IF outcome = "else"
                          THEN {homeworks[i] : i \in 1..Len(homeworks)} ELSE {},
                empty_batch |-> validated /\ Len(homeworks) = 0,
                sent |-> IF outcome = "break" THEN Len(sentNow) ELSE 0]
    /\ response' = NullPayload
    /\ homeworks' = <<>>
    /\ idx' = 0
    /\ error' = NoError
    /\ outcome' = "none"
    /\ sentNow' = <<>>
    /\ timestamp0' = NoDate
    /\ validated' = FALSE
    /\ from_date' = NoDate
    /\ http' = NoHttp
    /\ UNCHANGED <<tokens, timestamp, last_send, delivered>>

Next ==
    \/ CheckTokens
    \/ Poll
    \/ ProcessItem
    \/ FinishIteration
    \/ HandleError
    \/ Sleep

Spec == Init /\ [][Next]_vars

(***************************************************************************)
(* Properties                                                              *)
(***************************************************************************)
Calls == {sentNow[i] : i \in 1..Len(sentNow)}

PolledItems == {homeworks[i] : i \in 1..Len(homeworks)}

MessageOf(h) == StatusMessage(h.homework_name, HOMEWORK_VERDICTS[h.status])

\* the statuses a set of items gives for a name
StatusesOf(items, name) == {h.status : h \in {x \in items : x.homework_name = name}}

\* C1: send_message is called for a key k with message m only when
\* last_send.get(k) differs from m (None when k is missing), and right
\* after the call last_send[k] is m.
C1_SendOnlyWhenDifferent ==
    [][Len(sentNow') = Len(sentNow) + 1 =>
        LET c == sentNow'[Len(sentNow')]
        IN  /\ Get(last_send, c.key) # c.message
            /\ c.key \in DOMAIN last_send'
            /\ last_send'[c.key] = c.message]_vars

\* a changed status of a remembered item has been sent and recorded
C1_Witness ==
    \E c \in Calls :
        /\ c.key = "hw1"
        /\ c.stored \notin {None, c.message}
        /\ last_send[c.key] = c.message

\* C2: an item returned with the same name and status by two consecutive
\* successful polls is not notified by the second poll.  Stated for the items
\* whose name has no other status in either poll.
C2_UnchangedItemNotifiedOnce ==
    \A h \in Homework :
        ( /\ outcome = "else"
          /\ prev.outcome = "else"
          /\ StatusesOf(prev.items, h.homework_name) = {h.status}
          /\ StatusesOf(PolledItems, h.homework_name) = {h.status} )
        => ~ \E c \in Calls : c.key = h.homework_name

\* C3: when two consecutive iterations fail with the same error message,
\* the second iteration sends no error notification.
C3_RepeatedErrorNotifiedOnce ==
    ( /\ outcome = "except"
      /\ prev.outcome = "except"
      /\ prev.error = ErrorMessage(error) )
    => ~ \E c \in Calls : c.key = "error" /\ c.message = ErrorMessage(error)

\* C4: every call of send_message calls bot.send_message exactly once, with
\* TELEGRAM_CHAT_ID and the message.
C4_EveryCallDelivers ==
    \A c \in Calls :
        c.delivered = <<[chat_id |-> tokens.TELEGRAM_CHAT_ID, text |-> c.message]>>

\* C5: when an iteration reaches the else clause the cursor is the
\* current_date of its response; until then, and when the iteration fails,
\* the cursor is the one the iteration began with.
C5_CursorIsCurrentDate ==
    /\ outcome = "else" => timestamp = response.current_date
    /\ pc \in {"items", "except"} => timestamp = timestamp0
    /\ outcome = "except" => timestamp = timestamp0

\* a second successful iteration has moved the cursor to its current_date
C5_Witness ==
    /\ outcome = "else"
    /\ prev.outcome = "else"
    /\ timestamp # timestamp0
    /\ timestamp = response.current_date

\* C6: after a successful iteration the cursor is an integer not below the
\* cursor the iteration began with.
C6_CursorNeverDecreases ==
    outcome = "else" => (timestamp # NoDate /\ timestamp >= timestamp0)

\* C7: the loop ends exactly when a validated response has no homeworks; that
\* iteration sends nothing; no exception leaves main; a failed iteration is
\* followed by another one.
C7_TerminatesOnlyOnEmptyBatch ==
    /\ pc # "crashed"
    /\ (pc = "done") <=> prev.empty_batch
    /\ pc = "done" => prev.outcome = "break" /\ prev.sent = 0
    /\ prev.outcome = "except" => pc \in {"poll", "items", "except", "sleep"}

\* the loop went on after a failure and ended on an empty batch
C7_Witness ==
    /\ pc = "done"
    /\ prev.empty_batch
    /\ prev.sent = 0
    /\ prev.last_error # None

\* C8: exactly one sleep of RETRY_PERIOD lies between the end of an
\* iteration and the next request or the end of the loop, and none inside an
\* iteration.
C8_OneSleepPerIteration ==
    /\ (pc = "poll" /\ prev.outcome # "none") => slept = <<RETRY_PERIOD>>
    /\ pc = "done" => slept = <<RETRY_PERIOD>>
    /\ pc \in {"items", "except", "sleep"} => slept = <<>>

\* a failed iteration has slept once and the next request is due
C8_Witness ==
    /\ pc = "poll"
    /\ prev.outcome = "except"
    /\ slept = <<RETRY_PERIOD>>

\* C9: at the end of a successful iteration last_send['error'] is None, and
\* a failure right after a successful iteration is notified, the same error
\* message as before included.
C9_ErrorClearedOnSuccess ==
    /\ outcome = "else" => last_send["error"] = None
    /\ (pc = "poll" /\ prev.outcome = "else") => last_send["error"] = None
    /\ (outcome = "except" /\ prev.outcome = "else")
        => \E c \in Calls : c.key = "error" /\ c.message = ErrorMessage(error)

\* the error of the iteration before the successful one is sent again
C9_Witness ==
    /\ outcome = "except"
    /\ prev.outcome = "else"
    /\ prev.last_error = ErrorMessage(error)
    /\ \E c \in Calls : c.key = "error" /\ c.message = prev.last_error

\* C10: a failure inside send_message is logged there and does not leave it:
\* no exception of send_message reaches the except clause of main or leaves
\* main.
C10_SendFailureNeverPropagates ==
    /\ pc # "crashed"
    /\ outcome # "crash"
    /\ \A c \in Calls : c.delivered = <<>> => (~c.raised /\ c.logged # <<>>)
    /\ pc = "except" => \A c \in Calls : c.raised = FALSE

\* a send failed and the for loop went on to send and record the next item
C10_Witness ==
    /\ pc = "items"
    /\ Len(sentNow) = 2
    /\ idx = 3
    /\ \A c \in Calls : c.delivered = <<>> /\ c.logged # <<>> /\ ~c.raised
    /\ \A c \in Calls : last_send[c.key] = c.message

\* one of the three configuration values is missing or empty
TokenMissing == \E k \in DOMAIN tokens : tokens[k] = ""

\* C11: with a configuration value missing or empty main exits before the
\* loop, having made no request and no send_message call; with all three
\* present main does not exit there and enters the loop.
C11_MissingTokenExitsBeforeLoop ==
    /\ TokenMissing =>
        /\ pc \in {"start", "exited"}
        /\ from_date = NoDate
        /\ prev = NoPrev
        /\ sentNow = <<>>
        /\ delivered = <<>>
    /\ ~TokenMissing => pc # "exited"
    /\ pc = "exited" => TokenMissing

\* main has exited because only the channel id is empty
C11_Witness ==
    /\ pc = "exited"
    /\ tokens.TELEGRAM_CHAT_ID = ""
    /\ tokens.PRACTICUM_TOKEN # ""
    /\ tokens.TELEGRAM_TOKEN # ""

\* the for loop stopped at homeworks[idx] with an exception
ItemFailed ==
    /\ validated
    /\ error # NoError
    /\ idx \in 1..Len(homeworks)
    /\ pc = "except" \/ (pc = "sleep" /\ outcome = "except")

\* the send_message calls of this iteration made by the for loop
ItemCalls == {c \in Calls : c.message # ErrorMessage(error)}

MissingStatusError ==
    [type |-> "ParseStatusError",
     str |-> "Parsing otveta API: Otsutstuet klyuch homework_status."]

\* C12 as claimed: whenever the item the loop stopped at has no status key,
\* the exception is ParseStatusError.
C12_MissingStatusIsParseStatusError ==
    (ItemFailed /\ homeworks[idx].status = Absent)
        => error.type = "ParseStatusError"

\* C12, amended: when an item that has a name has no status key, parse_status
\* raises ParseStatusError, the calls of the iteration belong to the items
\* before it, the cursor stays, and after the except clause
\* last_send['error'] is the formatted error, sent only if it was not there.
C12_NamedItemWithoutStatus ==
    ( /\ ItemFailed
      /\ homeworks[idx].homework_name # Absent
      /\ homeworks[idx].status = Absent )
    => /\ error = MissingStatusError
       /\ \A c \in ItemCalls :
            \E j \in 1..(idx - 1) :
                /\ c.key = homeworks[j].homework_name
                /\ c.message = MessageOf(homeworks[j])
       /\ timestamp = timestamp0
       /\ pc = "sleep" =>
            /\ last_send["error"] = ErrorMessage(error)
            /\ \A c \in Calls \ ItemCalls :
                c.key = "error" /\ c.stored # c.message

\* the second item has a name and no status: the first item and then the
\* error have been sent
C12_Witness ==
    /\ ItemFailed
    /\ pc = "sleep"
    /\ idx = 2
    /\ homeworks[2].homework_name = "hw1"
    /\ homeworks[2].status = Absent
    /\ error.type = "ParseStatusError"
    /\ Len(sentNow) = 2
    /\ timestamp = timestamp0

\* C13: the request of every iteration carries from_date equal to the cursor
\* the iteration began with.
C13_FromDateIsCursor ==
    pc \in {"items", "except", "sleep"} => from_date = timestamp0

\* the message the documentation gives for a name and a recognized status
ExpectedMessage(name, status) ==
    CASE status = "approved" ->
            "Izmenilsya status proverki raboty \"" \o name
                \o "\". Rabota proverena: revyueru vsyo ponravilos. Ura!"
      [] status = "reviewing" ->
            "Izmenilsya status proverki raboty \"" \o name
                \o "\". Rabota vzyata na proverku revyuerom."
      [] status = "rejected" ->
            "Izmenilsya status proverki raboty \"" \o name
                \o "\". Rabota proverena: u revyuera est zamechaniya."

Recognized == {"approved", "reviewing", "rejected"}

UnknownStatusError ==
    [type |-> "KeyError", str |-> "'Neizvestnyy status domashney raboty'"]

\* C14: a named item with a recognized status is translated to the template
\* with the verdict of that status (the message main then holds for its
\* name); a named item with another status fails with the unknown-status
\* KeyError; no message with any other verdict is ever sent or remembered.
C14_ExactVerdictOrUnknownStatus ==
    /\ (pc = "items" /\ idx > 1) =>
        LET h == homeworks[idx - 1]
        IN  /\ h.homework_name # Absent
            /\ h.status \in Recognized
            /\ h.homework_name \in DOMAIN last_send
            /\ last_send[h.homework_name]
                 = ExpectedMessage(h.homework_name, h.status)
    /\ ( /\ ItemFailed
         /\ homeworks[idx].homework_name # Absent
         /\ homeworks[idx].status \notin Recognized \cup {Absent} )
       => error = UnknownStatusError
    /\ \A c \in ItemCalls :
         \E st \in Recognized : c.message = ExpectedMessage(c.key, st)
    /\ \A k \in DOMAIN last_send \ {"error"} :
         \E st \in Recognized : last_send[k] = ExpectedMessage(k, st)

\* hw1 under review was translated, then hw1 with an unknown status failed
C14_Witness ==
    /\ ItemFailed
    /\ idx = 2
    /\ homeworks[1] = [homework_name |-> "hw1", status |-> "reviewing"]
    /\ homeworks[2] = [homework_name |-> "hw1", status |-> "unknown"]
    /\ error = UnknownStatusError
    /\ last_send["hw1"] = ExpectedMessage("hw1", "reviewing")


(***************************************************************************)
(* check_response and get_api_answer: the kinds of failure                 *)
(***************************************************************************)
\* the request of this iteration was answered with status 200 and a body
\* that decodes, so response is the payload check_response was given
ReceivedPayload ==
    /\ http.requested
    /\ http.transport_ok
    /\ http.status_code = 200
    /\ http.decodable

\* the kind of a failure is the class of the exception that is raised
EmptyResponseKind == check_response(NullPayload).error.type

\* C15: whenever the payload check_response was given lacks the homeworks
\* key, check_response has failed with a kind that is neither the kind of
\* the empty-response failure nor TypeError.
C15_MissingKeyIsItsOwnKind ==
    (ReceivedPayload /\ ~response.has_homeworks) =>
        /\ ~validated
        /\ error # NoError
        /\ error.type # EmptyResponseKind
        /\ error.type # "TypeError"


\* why the request h describes gave get_api_answer nothing to return
Cause(h) ==
    IF ~h.transport_ok THEN "transport"
    ELSE IF h.status_code # 200 THEN "status"
    ELSE IF ~h.decodable THEN "decode"
    ELSE "none"

\* the kinds get_api_answer fails with when the cause is c
FailureKinds(c) ==
    {get_api_answer(Now, h).error.type : h \in {a \in HttpAnswers : Cause(a) = c}}

\* C16: whenever the request of the iteration failed (transport, status
\* other than 200, body that does not decode), get_api_answer has returned
\* no value and has failed with a kind that no other cause of failure
\* produces, and the failure for a status carries the status code.
C16_EachFetchFailureHasItsOwnKind ==
    (http.requested /\ Cause(http) # "none") =>
        /\ ~validated
        /\ response = NullPayload
        /\ error # NoError
        /\ \A c \in {"transport", "status", "decode"} \ {Cause(http)} :
                error.type \notin FailureKinds(c)
        /\ Cause(http) = "status" =>
                error.str = "Oshibka otveta ot API adresa: "
                                \o ToString(http.status_code)


\* the kinds check_response fails with for a non-empty mapping that has no
\* homeworks key
MissingKeyKinds ==
    {check_response(p).error.type :
        p \in {q \in Payloads : q.truthy /\ q.is_dict /\ ~q.has_homeworks}}

\* C17: whenever check_response was given a payload, a falsy payload has
\* failed with the empty-response kind, which is not a kind of the
\* missing-key failure; a truthy payload that is not a mapping, or whose
\* homeworks is not a list, has failed with TypeError; and a non-empty
\* mapping without homeworks has failed with a kind other than TypeError.
C17_EmptinessShapeKeyInOrder ==
    ReceivedPayload =>
        /\ ~response.truthy =>
                /\ error # NoError
                /\ error.type = EmptyResponseKind
                /\ error.type \notin MissingKeyKinds
        /\ (response.truthy /\ ~response.is_dict) => error.type = "TypeError"
        /\ (response.truthy /\ response.is_dict /\ ~response.has_homeworks) =>
                /\ error # NoError
                /\ error.type # "TypeError"
        /\ (/\ response.truthy /\ response.is_dict /\ response.has_homeworks
            /\ ~response.homeworks_is_list) => error.type = "TypeError"


(***************************************************************************)
(* The dedup memory across iterations                                      *)
(***************************************************************************)
\* the previous iteration succeeded and polled h, the only status it gave for
\* that name, and so does the present poll: the item's message has stayed
\* the same
StayedEqual(h) ==
    /\ prev.outcome = "else"
    /\ validated
    /\ StatusesOf(prev.items, h.homework_name) = {h.status}
    /\ StatusesOf(PolledItems, h.homework_name) = {h.status}

\* C18: a send_message call whose delivery fails is followed by the same
\* update of last_send as any other call, and the message is not sent again
\* by the next iteration when the item's message, or the error message, is
\* still the same.
C18_FailedDeliveryIsNotRetried ==
    /\ [][Len(sentNow') = Len(sentNow) + 1 =>
            LET c == sentNow'[Len(sentNow')]
            IN  c.delivered = <<>> => /\ c.key \in DOMAIN last_send'
                                      /\ last_send'[c.key] = c.message]_vars
    /\ [](\A h \in Homework :
            ( /\ StayedEqual(h)
              /\ h.status \in DOMAIN HOMEWORK_VERDICTS
              /\ h.homework_name # Absent ) =>
                ~ \E c \in Calls : /\ c.key = h.homework_name
                                   /\ c.message = MessageOf(h)
                                   /\ c.delivered = <<>>)
    /\ []((prev.outcome = "except" /\ pc \in {"except", "sleep"}
                /\ error # NoError /\ prev.error = ErrorMessage(error)) =>
            ~ \E c \in Calls : /\ c.key = "error"
                               /\ c.message = prev.error
                               /\ c.delivered = <<>>)


\* the send_message calls of the iteration that the for loop made: all of
\* them but the one of the except clause
NItemCalls ==
    IF /\ Len(sentNow) > 0
       /\ sentNow[Len(sentNow)].key = "error"
       /\ sentNow[Len(sentNow)].message = ErrorMessage(error)
    THEN Len(sentNow) - 1
    ELSE Len(sentNow)

\* item j is the last one before item k that has its name
LastOfItsName(j, k) ==
    \A i \in (j + 1)..(k - 1) :
        homeworks[i].homework_name # homeworks[j].homework_name

\* C19: when the translation of item k of the list fails, the calls the for
\* loop made are calls for items before k, in the order of the list; the
\* message of every item before k is the one last_send remembers for its
\* name, also after the except clause has run, which is what the next poll
\* starts from; no call was made for k or a later item; and the cursor is
\* the one the iteration began with.
C19_ItemsInOrderUntilFailure ==
    ItemFailed =>
        /\ \E f \in [1..NItemCalls -> 1..(idx - 1)] :
            /\ \A i, j \in 1..NItemCalls : i < j => f[i] < f[j]
            /\ \A i \in 1..NItemCalls :
                /\ sentNow[i].key = homeworks[f[i]].homework_name
                /\ sentNow[i].message =
                       ExpectedMessage(homeworks[f[i]].homework_name,
                                       homeworks[f[i]].status)
        /\ \A j \in 1..(idx - 1) :
            LastOfItsName(j, idx) =>
                Get(last_send, homeworks[j].homework_name) =
                    ExpectedMessage(homeworks[j].homework_name,
                                    homeworks[j].status)
        /\ timestamp = timestamp0


\* every message the except clause of main can produce
ErrorPathMessages ==
    {ErrorMessage(e) :
        e \in ({get_api_answer(Now, h).error : h \in HttpAnswers}
               \cup {check_response(p).error : p \in Payloads}
               \cup {parse_status(h).error : h \in Homework}) \ {NoError}}

\* C20: last_send['error'] is None or a message of the except clause,
\* whatever the names of the work items are, and after the else clause has
\* run last_send still remembers the message of every item of the poll.
C20_ErrorKeyIsReserved ==
    /\ last_send["error"] \in {None} \cup ErrorPathMessages
    /\ outcome = "else" =>
        \A j \in 1..Len(homeworks) :
            LastOfItsName(j, Len(homeworks) + 1) =>
                Get(last_send, homeworks[j].homework_name) =
                    ExpectedMessage(homeworks[j].homework_name,
                                    homeworks[j].status)

====
